---- MODULE Spec2Model ----
(***************************************************************************)
(* The adaptive metric-computation and fallback layer of flux_data:        *)
(* SalesDataLoader (utils/data_loader.py) and AdaptiveDataManager          *)
(* (utils/adaptive_data_manager.py).                                       *)
(*                                                                         *)
(* Representation.                                                         *)
(*  - A zone string is a sequence of one-character strings, so that        *)
(*    lower(), replace(' ', '_') and replace('_', '') are computed         *)
(*    character by character as Python and Polars compute them.            *)
(*  - A DataFrame is a bag of rows: a function from the distinct rows to   *)
(*    the (positive) number of times each occurs.  Row order is never read *)
(*    by the code modelled here.  The revenue column is read only by       *)
(*    get_data_summary (total_revenue) and is left out of the rows.        *)
(*  - Lifts are integers in hundredths (1.40 is 140), performance indices  *)
(*    integers in tenths (100.0 is 1000), confidence scores in hundredths. *)
(*    round(x, n) is round-half-to-even on the exact quotient.             *)
(*  - An Optional value is None (the empty sequence) or Some(x) = <<x>>.   *)
(*    A dict is a function; the empty dict is the function of empty        *)
(*    domain.                                                              *)
(*  - A sales file is what pl.read_csv finds at the path: whether it can   *)
(*    be read, its column names and its rows.  A frame that lacks the      *)
(*    was_promoted column is represented with was_promoted FALSE on every  *)
(*    row, for which the filter of line 149 and its omission coincide.     *)
(***************************************************************************)
EXTENDS Integers, Sequences, FiniteSets, TLC

VARIABLES
    sales_csv_path,        \* the sales file __init__ was given: None or Some(file)
    load_error,            \* what SalesDataLoader(sales_csv_path) raised, if anything
    sales_loader,          \* self.sales_loader: None or Some(loader with its df)
    min_sample_size,       \* self.min_sample_size
    category_lifts,        \* self.category_lifts: category -> zone -> entry
    location_performance,  \* self.location_performance: location_id -> index
    metadata,              \* self.metadata
    last_run,              \* outcome of the last compute_all_metrics call
    total_trans,           \* argument of the last _assess_data_quality call
    quality,               \* value returned by the last _assess_data_quality call
    pc,                    \* where a compute_all_metrics call in progress stands, else "idle"
    run_location_metadata, \* local location_metadata of the call in progress
    local_category_lifts,  \* local category_lifts of _compute_category_lifts_adaptive
    data_manager,          \* AnalyzerAgentV2.data_manager: None or Some("AdaptiveDataManager")
    state,                 \* the WorkflowState of the workflow run
    node,                  \* the node of the workflow graph that runs next
    outcome                \* what OrchestratorV2.execute returned or raised

\* the locals of a compute_all_metrics call in progress
run_vars == <<pc, run_location_metadata, local_category_lifts>>

\* the analyzer's manager reference and the workflow run
workflow_vars == <<data_manager, state, node, outcome>>

vars == <<sales_csv_path, load_error, sales_loader, min_sample_size, category_lifts, location_performance,
          metadata, last_run, total_trans, quality, run_vars, workflow_vars>>

-----------------------------------------------------------------------------
(* Optional values and dicts *)

None == <<>>
Some(x) == <<x>>
EmptyDict == <<>>

-----------------------------------------------------------------------------
(* Strings as character sequences *)

UPPER_TO_LOWER ==
    [A |-> "a", B |-> "b", C |-> "c", D |-> "d", E |-> "e", F |-> "f", G |-> "g",
     H |-> "h", I |-> "i", J |-> "j", K |-> "k", L |-> "l", M |-> "m", N |-> "n",
     O |-> "o", P |-> "p", Q |-> "q", R |-> "r", S |-> "s", T |-> "t", U |-> "u",
     V |-> "v", W |-> "w", X |-> "x", Y |-> "y", Z |-> "z"]

\* str.lower() / pl.Expr.str.to_lowercase()
str_lower(s) ==
    [i \in 1..Len(s) |-> IF s[i] \in DOMAIN UPPER_TO_LOWER THEN UPPER_TO_LOWER[s[i]] ELSE s[i]]

\* str.replace(old, new) / pl.Expr.str.replace_all(old, new) for a one-character
\* `old` and a `new` of length 0 or 1 (given as a sequence)
RECURSIVE str_replace(_, _, _)
str_replace(s, old, new) ==
    IF s = <<>> THEN <<>>
    ELSE (IF Head(s) = old THEN new ELSE <<Head(s)>>) \o str_replace(Tail(s), old, new)

\* zone strings written in the source
ENDCAP == <<"e","n","d","c","a","p">>
EYE_LEVEL == <<"e","y","e","_","l","e","v","e","l">>
CHECKOUT == <<"c","h","e","c","k","o","u","t">>
LOW_SHELF == <<"l","o","w","_","s","h","e","l","f">>
REGULAR == <<"r","e","g","u","l","a","r">>
REGULAR_SHELF == <<"r","e","g","u","l","a","r","_","s","h","e","l","f">>
BOTTOM_SHELF == <<"b","o","t","t","o","m","_","s","h","e","l","f">>
REGULARSHELF == <<"r","e","g","u","l","a","r","s","h","e","l","f">>
MIDSHELF == <<"m","i","d","s","h","e","l","f">>

\* zone strings as data files and callers spell them
MID_SHELF == <<"m","i","d","_","s","h","e","l","f">>
EYELEVEL == <<"e","y","e","l","e","v","e","l">>
LOWSHELF == <<"l","o","w","s","h","e","l","f">>
Label_End_Cap == <<"E","n","d"," ","C","a","p">>
Label_end_cap == <<"e","n","d","_","c","a","p">>
Label_ENDCAP == <<"E","N","D","C","A","P">>
Label_Eye_Level == <<"E","y","e"," ","L","e","v","e","l">>
Label_Low_Shelf == <<"L","o","w"," ","S","h","e","l","f">>
Label_Regular_Shelf == <<"R","e","g","u","l","a","r"," ","S","h","e","l","f">>
Label_Checkout == <<"C","h","e","c","k","o","u","t">>
Label_Main_Entrance == <<"M","a","i","n"," ","E","n","t","r","a","n","c","e">>

\* every zone string above
ZoneStrings ==
    {ENDCAP, EYE_LEVEL, CHECKOUT, LOW_SHELF, REGULAR, REGULAR_SHELF, BOTTOM_SHELF,
     REGULARSHELF, MIDSHELF, MID_SHELF, EYELEVEL, LOWSHELF,
     Label_End_Cap, Label_end_cap, Label_ENDCAP, Label_Eye_Level, Label_Low_Shelf,
     Label_Regular_Shelf, Label_Checkout, Label_Main_Entrance}

-----------------------------------------------------------------------------
(* Arithmetic *)

\* round-half-to-even of num / den, for den > 0
RoundHalfEven(num, den) ==
    LET q == num \div den
        r == num % den
    IN  IF 2 * r < den THEN q
        ELSE IF 2 * r > den THEN q + 1
        ELSE IF q % 2 = 0 THEN q ELSE q + 1

-----------------------------------------------------------------------------
(* AdaptiveDataManager.INDUSTRY_DEFAULTS, in hundredths *)

INDUSTRY_DEFAULTS ==
    ("Beverages" :> (ENDCAP :> 140 @@ EYE_LEVEL :> 115 @@ CHECKOUT :> 130 @@ LOW_SHELF :> 85))
 @@ ("Snacks" :> (ENDCAP :> 150 @@ EYE_LEVEL :> 120 @@ CHECKOUT :> 170 @@ LOW_SHELF :> 80))
 @@ ("Dairy" :> (ENDCAP :> 130 @@ EYE_LEVEL :> 110 @@ CHECKOUT :> 100 @@ LOW_SHELF :> 90))
 @@ ("Bakery" :> (ENDCAP :> 140 @@ EYE_LEVEL :> 120 @@ CHECKOUT :> 90 @@ LOW_SHELF :> 85))
 @@ ("Personal Care" :> (ENDCAP :> 120 @@ EYE_LEVEL :> 115 @@ CHECKOUT :> 80 @@ LOW_SHELF :> 90))

\* the zones the resolver iterates over, adaptive_data_manager.py line 176
RESOLVER_ZONES == {ENDCAP, EYE_LEVEL, CHECKOUT, LOW_SHELF}

\* the zones a lift is computed for, data_loader.py line 176
TARGET_ZONES == {ENDCAP, CHECKOUT, EYE_LEVEL}

\* data_loader.py line 153
baseline_zones == {REGULAR, REGULARSHELF, MIDSHELF}

\* `len(zone_data) >= 150`, data_loader.py line 198
HIGH_CONFIDENCE_SAMPLES == 150

\* default of the constructor's min_sample_size parameter
DEFAULT_MIN_SAMPLE_SIZE == 30

\* the neutral lift 1.0 and the neutral performance index 100.0
NEUTRAL_LIFT == 100
NEUTRAL_PERFORMANCE == 1000

Entry(lift, source, confidence, sample_size) ==
    [lift |-> lift, source |-> source, confidence |-> confidence, sample_size |-> sample_size]

-----------------------------------------------------------------------------
(* DataFrames as bags of rows *)

Row(product_id, location_id, units_sold, was_promoted) ==
    [product_id |-> product_id, location_id |-> location_id,
     units_sold |-> units_sold, was_promoted |-> was_promoted]

\* DataFrame.filter: the rows of df that lie in `keep`, with their multiplicities
df_filter(df, keep) == [r \in (DOMAIN df) \cap keep |-> df[r]]

\* len(df)
RECURSIVE df_len(_)
df_len(df) ==
    IF DOMAIN df = {} THEN 0
    ELSE LET r == CHOOSE x \in DOMAIN df : TRUE
         IN  df[r] + df_len([x \in (DOMAIN df) \ {r} |-> df[x]])

\* pl.col('units_sold').sum()
RECURSIVE units_sum(_)
units_sum(df) ==
    IF DOMAIN df = {} THEN 0
    ELSE LET r == CHOOSE x \in DOMAIN df : TRUE
         IN  df[r] * r.units_sold + units_sum([x \in (DOMAIN df) \ {r} |-> df[x]])

\* pl.col('units_sold').mean(): None over no rows, else the exact quotient sum / n
units_mean(df) ==
    IF df_len(df) = 0 THEN None ELSE Some([sum |-> units_sum(df), n |-> df_len(df)])

-----------------------------------------------------------------------------
(* SalesDataLoader.__init__, _load_data and _validate_schema, lines 23-71 *)

\* lines 47-52 and 54-59
required_cols == {"product_id", "location_id", "units_sold", "revenue"}
optional_cols == {"was_promoted", "week_date", "month", "year"}

\* what lies at csv_path
CsvFile(readable, columns, df) == [readable |-> readable, columns |-> columns, df |-> df]

\* line 62 with the optional columns counted as required
missing_with_optional(columns) == (required_cols \cup optional_cols) \ columns

\* line 62: set(required_cols.keys()) - set(self.df.columns)
missing(columns) == required_cols \ columns

\* the exceptions of lines 43 and 64; `missing` is what the message names
ValueError(message, missing_columns) ==
    [exception |-> "ValueError", message |-> message, missing |-> missing_columns]

\* SalesDataLoader(csv_path): the loader, or the exception __init__ raises
SalesDataLoader(file) ==
    IF ~file.readable
    THEN [loader |-> None, raised |-> Some(ValueError("Cannot load sales data", {}))]
    ELSE IF missing(file.columns) # {}
    THEN [loader |-> None,
          raised |-> Some(ValueError("Missing required columns", missing(file.columns)))]
    ELSE [loader |-> Some([df |-> file.df, columns |-> file.columns]), raised |-> None]

-----------------------------------------------------------------------------
(* SalesDataLoader.compute_category_lifts, data_loader.py lines 97-208 *)

\* the left joins of lines 138-142: a product or location missing from the
\* metadata leaves a null category or zone_type
category_of(row, product_metadata) ==
    IF row.product_id \in DOMAIN product_metadata
    THEN Some(product_metadata[row.product_id].category) ELSE None

zone_type_of(row, location_metadata) ==
    IF row.location_id \in DOMAIN location_metadata
    THEN Some(location_metadata[row.location_id].zone) ELSE None

\* lines 147-149 left out: promoted rows stay in the frame
filter_promoted_missing(df) == df

\* lines 147-149: enriched_df.filter(pl.col('was_promoted') == False)
filter_promoted(df) == df_filter(df, {r \in DOMAIN df : r.was_promoted = FALSE})

\* lines 164 and 180: pl.col('zone_type').str.to_lowercase().str.replace_all(' ', '')
to_lowercase_replace_all(zone_type) == str_replace(str_lower(zone_type), " ", <<>>)

\* the same conversion tabulated over ZoneStrings, so that it is evaluated once
\* for each string and not once for each row
normalized_zone_strings == [z \in ZoneStrings |-> to_lowercase_replace_all(z)]

normalize_zone_type(zone_type) ==
    IF zone_type \in ZoneStrings THEN normalized_zone_strings[zone_type]
    ELSE to_lowercase_replace_all(zone_type)

\* line 164: the rows of cat_data whose normalized zone_type is a baseline zone
baseline_rows(cat_data, location_metadata) ==
    df_filter(cat_data,
        {r \in DOMAIN cat_data :
            /\ zone_type_of(r, location_metadata) # None
            /\ normalize_zone_type(zone_type_of(r, location_metadata)[1]) \in baseline_zones})

\* lines 178-181: the rows of cat_data whose normalized zone_type is zone.replace('_', '')
zone_rows(cat_data, location_metadata, zone) ==
    LET zone_normalized == str_replace(zone, "_", <<>>)
    IN  df_filter(cat_data,
            {r \in DOMAIN cat_data :
                /\ zone_type_of(r, location_metadata) # None
                /\ normalize_zone_type(zone_type_of(r, location_metadata)[1])
                       = zone_normalized})

\* line 169 without the test for a zero baseline
skip_category_none_only(baseline) == baseline = None

\* line 169: baseline is None or baseline == 0
skip_category(baseline) == baseline = None \/ baseline[1].sum = 0

\* line 183 testing for an empty sample instead of a small one
insufficient_sample_empty(n, min_samples) == n = 0

\* line 183: len(zone_data) < min_sample_size
insufficient_sample(n, min_samples) == n < min_samples

\* line 198 with the comparison turned round
sample_confidence_reversed(n) == IF n <= HIGH_CONFIDENCE_SAMPLES THEN "high" ELSE "medium"

\* line 198: 'high' if len(zone_data) >= 150 else 'medium'
sample_confidence(n) == IF n >= HIGH_CONFIDENCE_SAMPLES THEN "high" ELSE "medium"

\* lines 193-197: round(zone_avg / baseline if baseline > 0 else 1.0, 2), in hundredths
\* (baseline.n > 0, so baseline > 0 exactly when baseline.sum > 0)
rounded_lift(zone_avg, baseline) ==
    IF baseline.sum > 0
    THEN RoundHalfEven(100 * zone_avg.sum * baseline.n, zone_avg.n * baseline.sum)
    ELSE NEUTRAL_LIFT

\* lines 176-203 comparing the sample with the default 30 instead of the
\* min_sample_size the manager passes
zone_lift_default_min(cat_data, location_metadata, zone, baseline, min_samples) ==
    LET zone_data == zone_rows(cat_data, location_metadata, zone)
        n == df_len(zone_data)
    IN  IF insufficient_sample(n, DEFAULT_MIN_SAMPLE_SIZE)
        THEN Entry(None, "insufficient_data", "low", n)
        ELSE Entry(Some(rounded_lift(units_mean(zone_data)[1], baseline[1])),
                   "computed", sample_confidence(n), n)

\* lines 176-203: the entry of one target zone (baseline_sales and zone_sales,
\* which no caller reads, are left out)
zone_lift(cat_data, location_metadata, zone, baseline, min_samples) ==
    LET zone_data == zone_rows(cat_data, location_metadata, zone)
        n == df_len(zone_data)
    IN  IF insufficient_sample(n, min_samples)
        THEN Entry(None, "insufficient_data", "low", n)
        ELSE Entry(Some(rounded_lift(units_mean(zone_data)[1], baseline[1])),
                   "computed", sample_confidence(n), n)

compute_category_lifts(df, product_metadata, location_metadata, min_samples) ==
    IF DOMAIN product_metadata = {} \/ DOMAIN location_metadata = {}
    THEN EmptyDict      \* lines 143-145
    ELSE
    LET enriched_df == filter_promoted(df)
        \* line 157: a null category selects no rows, so it never gets a baseline
        categories == {category_of(r, product_metadata)[1] :
                          r \in {x \in DOMAIN enriched_df : category_of(x, product_metadata) # None}}
        cat_data(category) ==
            df_filter(enriched_df,
                {r \in DOMAIN enriched_df : category_of(r, product_metadata) = Some(category)})
        baseline(category) == units_mean(baseline_rows(cat_data(category), location_metadata))
        kept == {category \in categories : ~skip_category(baseline(category))}
    IN  [category \in kept |->
            [zone \in TARGET_ZONES |->
                zone_lift(cat_data(category), location_metadata, zone,
                          baseline(category), min_samples)]]

\* SalesDataLoader.compute_location_performance, data_loader.py lines 210-236.
\* avg_sales is the mean of the per-location totals, sum(units_sold) / #locations.
\* With rows present and avg_sales = 0.0, line 233 divides by zero.
location_ids(df) == {r.location_id : r \in DOMAIN df}

location_total(df, location_id) ==
    units_sum(df_filter(df, {r \in DOMAIN df : r.location_id = location_id}))

location_performance_raises(df) == DOMAIN df # {} /\ units_sum(df) = 0

compute_location_performance(df) ==
    LET n_locations == Cardinality(location_ids(df))
        total_units == units_sum(df)
    IN  [location_id \in location_ids(df) |->
            IF total_units > 0
            THEN RoundHalfEven(1000 * location_total(df, location_id) * n_locations, total_units)
            ELSE RoundHalfEven(0 - 1000 * location_total(df, location_id) * n_locations,
                               0 - total_units)]

\* _get_date_range, lines 90-95: dates[0] of an empty Series raises IndexError;
\* without the week_date column float() of the sum of an empty untyped revenue
\* column raises TypeError (line 85)
get_data_summary_raises(df, columns) ==
    IF DOMAIN df # {} THEN None
    ELSE IF "week_date" \in columns THEN Some("IndexError") ELSE Some("TypeError")

\* SalesDataLoader.get_data_summary, lines 73-88 (date_range and total_revenue left out)
get_data_summary(df, columns) ==
    [total_transactions |-> df_len(df),
     unique_products |-> Cardinality({r.product_id : r \in DOMAIN df}),
     unique_locations |-> Cardinality(location_ids(df)),
     total_units |-> units_sum(df),
     has_promotion_data |-> "was_promoted" \in columns]

-----------------------------------------------------------------------------
(* AdaptiveDataManager, adaptive_data_manager.py *)

\* resolve_zone without the test of line 179: whatever was computed is stored
resolve_zone_unchecked(computed_zones, category, zone) ==
    IF zone \in DOMAIN computed_zones
    THEN Entry(computed_zones[zone].lift, computed_zones[zone].source,
               computed_zones[zone].confidence, computed_zones[zone].sample_size)
    ELSE Entry(Some(INDUSTRY_DEFAULTS[category][zone]), "industry_default", "low", 0)

\* line 179 accepting only confidence high
resolve_zone_high_only(computed_zones, category, zone) ==
    IF zone \in DOMAIN computed_zones /\ computed_zones[zone].source = "computed"
          /\ computed_zones[zone].confidence = "high"
    THEN Entry(computed_zones[zone].lift, "computed",
               computed_zones[zone].confidence, computed_zones[zone].sample_size)
    ELSE Entry(Some(INDUSTRY_DEFAULTS[category][zone]), "industry_default", "low",
               IF zone \in DOMAIN computed_zones THEN computed_zones[zone].sample_size ELSE 0)

\* lines 179-196 with the default written under source computed when the
\* computation has no entry for the zone
resolve_zone_default_computed(computed_zones, category, zone) ==
    IF zone \in DOMAIN computed_zones /\ computed_zones[zone].source = "computed"
          /\ computed_zones[zone].confidence \in {"high", "medium"}
    THEN Entry(computed_zones[zone].lift, "computed",
               computed_zones[zone].confidence, computed_zones[zone].sample_size)
    ELSE IF zone \in DOMAIN computed_zones
    THEN Entry(Some(INDUSTRY_DEFAULTS[category][zone]), "industry_default", "low",
               computed_zones[zone].sample_size)
    ELSE Entry(Some(INDUSTRY_DEFAULTS[category][zone]), "computed", "low", 0)

\* lines 179-196: one cell of a category that compute_category_lifts returned
resolve_zone(computed_zones, category, zone) ==
    LET has == zone \in DOMAIN computed_zones     \* computed_lifts[category].get(zone, {})
        default_lift == IF zone \in DOMAIN INDUSTRY_DEFAULTS[category]
                        THEN INDUSTRY_DEFAULTS[category][zone] ELSE NEUTRAL_LIFT
    IN  IF has /\ computed_zones[zone].source = "computed"
               /\ computed_zones[zone].confidence \in {"high", "medium"}
        THEN Entry(computed_zones[zone].lift, "computed",
                   computed_zones[zone].confidence, computed_zones[zone].sample_size)
        ELSE Entry(Some(default_lift), "industry_default", "low",
                   IF has THEN computed_zones[zone].sample_size ELSE 0)

\* lines 199-207 and 212-220 with the neutral lift in place of the table value
all_defaults_neutral(category) ==
    [zone \in DOMAIN INDUSTRY_DEFAULTS[category] |->
        Entry(Some(NEUTRAL_LIFT), "industry_default", "low", 0)]

\* lines 199-207 and 212-220: every zone of the default table, sample_size 0
all_defaults(category) ==
    [zone \in DOMAIN INDUSTRY_DEFAULTS[category] |->
        Entry(Some(INDUSTRY_DEFAULTS[category][zone]), "industry_default", "low", 0)]

\* lines 170-207 iterating over the computed categories as well as the table's
compute_category_lifts_adaptive_all_computed(loader, min_samples, product_metadata, location_metadata) ==
    IF loader # None
    THEN LET computed_lifts ==
                 compute_category_lifts(loader[1].df, product_metadata,
                                        location_metadata, min_samples)
         IN  [category \in (DOMAIN INDUSTRY_DEFAULTS) \cup (DOMAIN computed_lifts) |->
                 IF category \in DOMAIN INDUSTRY_DEFAULTS
                 THEN IF category \in DOMAIN computed_lifts
                      THEN [zone \in RESOLVER_ZONES |->
                               resolve_zone(computed_lifts[category], category, zone)]
                      ELSE all_defaults(category)
                 ELSE computed_lifts[category]]
    ELSE [category \in DOMAIN INDUSTRY_DEFAULTS |-> all_defaults(category)]

\* _compute_category_lifts_adaptive, lines 145-222
compute_category_lifts_adaptive(loader, min_samples, product_metadata, location_metadata) ==
    IF loader # None
    THEN LET computed_lifts ==
                 compute_category_lifts(loader[1].df, product_metadata,
                                        location_metadata, min_samples)
         IN  [category \in DOMAIN INDUSTRY_DEFAULTS |->
                 IF category \in DOMAIN computed_lifts
                 THEN [zone \in RESOLVER_ZONES |->
                          resolve_zone(computed_lifts[category], category, zone)]
                 ELSE all_defaults(category)]
    ELSE [category \in DOMAIN INDUSTRY_DEFAULTS |-> all_defaults(category)]

\* _get_default_location_performance, lines 224-252 (indices in tenths)
zone_performance ==
    (ENDCAP :> 1500) @@ (CHECKOUT :> 1600) @@ (EYE_LEVEL :> 1200) @@ (REGULAR :> 1000)
 @@ (REGULAR_SHELF :> 1000) @@ (LOW_SHELF :> 700) @@ (BOTTOM_SHELF :> 600)

get_default_location_performance(location_metadata) ==
    [loc_id \in DOMAIN location_metadata |->
        LET zone == str_lower(location_metadata[loc_id].zone)
        IN  IF zone \in DOMAIN zone_performance THEN zone_performance[zone]
            ELSE NEUTRAL_PERFORMANCE]

\* _assess_data_quality, lines 334-355 (confidence_score in hundredths)
EXCELLENT_TRANSACTIONS == 3000
GOOD_TRANSACTIONS == 1000
FAIR_TRANSACTIONS == 500

\* the thresholds compared with > instead of >=
assess_data_quality_exclusive(total_transactions) ==
    IF total_transactions > EXCELLENT_TRANSACTIONS
    THEN [quality_level |-> "excellent", confidence_score |-> 95]
    ELSE IF total_transactions > GOOD_TRANSACTIONS
    THEN [quality_level |-> "good", confidence_score |-> 85]
    ELSE IF total_transactions > FAIR_TRANSACTIONS
    THEN [quality_level |-> "fair", confidence_score |-> 70]
    ELSE [quality_level |-> "poor", confidence_score |-> 50]

assess_data_quality(total_transactions) ==
    IF total_transactions >= EXCELLENT_TRANSACTIONS
    THEN [quality_level |-> "excellent", confidence_score |-> 95]
    ELSE IF total_transactions >= GOOD_TRANSACTIONS
    THEN [quality_level |-> "good", confidence_score |-> 85]
    ELSE IF total_transactions >= FAIR_TRANSACTIONS
    THEN [quality_level |-> "fair", confidence_score |-> 70]
    ELSE [quality_level |-> "poor", confidence_score |-> 50]

\* lines 311-330 with computation_rate left as a fraction of 1 instead of a percentage
metrics_summary_rate_fraction(lifts) ==
    LET cells == {cz \in (DOMAIN lifts) \X RESOLVER_ZONES : cz[2] \in DOMAIN lifts[cz[1]]}
        total_metrics == Cardinality(cells)
        computed_metrics == Cardinality({cz \in cells : lifts[cz[1]][cz[2]].source = "computed"})
        high_confidence == Cardinality({cz \in cells : lifts[cz[1]][cz[2]].confidence = "high"})
    IN  [total_metrics |-> total_metrics,
         computed_from_sales |-> computed_metrics,
         using_defaults |-> total_metrics - computed_metrics,
         high_confidence |-> high_confidence,
         computation_rate |-> IF total_metrics > 0
                              THEN RoundHalfEven(10 * computed_metrics, total_metrics)
                              ELSE 0]

\* the counting loop of _generate_metadata, lines 311-330
metrics_summary(lifts) ==
    LET cells == {cz \in (DOMAIN lifts) \X RESOLVER_ZONES : cz[2] \in DOMAIN lifts[cz[1]]}
        total_metrics == Cardinality(cells)
        computed_metrics == Cardinality({cz \in cells : lifts[cz[1]][cz[2]].source = "computed"})
        high_confidence == Cardinality({cz \in cells : lifts[cz[1]][cz[2]].confidence = "high"})
    IN  [total_metrics |-> total_metrics,
         computed_from_sales |-> computed_metrics,
         using_defaults |-> total_metrics - computed_metrics,
         high_confidence |-> high_confidence,
         computation_rate |-> IF total_metrics > 0
                              THEN RoundHalfEven(1000 * computed_metrics, total_metrics)
                              ELSE 0]

\* _generate_metadata, lines 294-332 (computation_timestamp and sales_file left out)
generate_metadata(loader, lifts) ==
    [data_sources |-> [sales_data |-> loader # None]]
 @@ (IF loader # None
     THEN [sales_summary |-> get_data_summary(loader[1].df, loader[1].columns),
           data_quality |-> assess_data_quality(
               get_data_summary(loader[1].df, loader[1].columns).total_transactions)]
     ELSE EmptyDict)
 @@ [metrics_summary |-> metrics_summary(lifts)]

FALLBACK_ENTRY == Entry(Some(NEUTRAL_LIFT), "fallback", "low", 0)

\* lines 421-428 answering an unmatched zone with the endcap entry
get_category_lift_endcap_default(lifts, category, zone) ==
    IF category \notin DOMAIN lifts
    THEN FALLBACK_ENTRY
    ELSE LET zone_normalized == str_replace(str_lower(zone), " ", <<"_">>)
             zone_no_underscore == str_replace(zone_normalized, "_", <<>>)
         IN  IF zone_normalized \in DOMAIN lifts[category]
             THEN lifts[category][zone_normalized]
             ELSE IF zone_no_underscore \in DOMAIN lifts[category]
             THEN lifts[category][zone_no_underscore]
             ELSE lifts[category][ENDCAP]

\* get_category_lift, lines 386-428
get_category_lift(lifts, category, zone) ==
    IF category \notin DOMAIN lifts
    THEN FALLBACK_ENTRY
    ELSE LET zone_normalized == str_replace(str_lower(zone), " ", <<"_">>)
             zone_no_underscore == str_replace(zone_normalized, "_", <<>>)
         IN  IF zone_normalized \in DOMAIN lifts[category]
             THEN lifts[category][zone_normalized]
             ELSE IF zone_no_underscore \in DOMAIN lifts[category]
             THEN lifts[category][zone_no_underscore]
             ELSE FALLBACK_ENTRY

\* get_location_performance, lines 430-440
get_location_performance(performance, location_id) ==
    IF location_id \in DOMAIN performance THEN performance[location_id]
    ELSE NEUTRAL_PERFORMANCE

-----------------------------------------------------------------------------
(* Inputs *)

\* data/input/products.json as _load_product_metadata returns it
ProductsFile ==
    ("P001" :> [category |-> "Snacks"]) @@ ("P002" :> [category |-> "Dairy"])
 @@ ("P003" :> [category |-> "Toys"]) @@ ("P004" :> [category |-> "snacks"])

\* data/input/locations.json as _load_location_metadata returns it
LocationsFile ==
    ("L001" :> [zone |-> Label_Regular_Shelf]) @@ ("L002" :> [zone |-> REGULAR_SHELF])
 @@ ("L003" :> [zone |-> Label_End_Cap]) @@ ("L004" :> [zone |-> EYE_LEVEL])
 @@ ("L005" :> [zone |-> Label_Checkout]) @@ ("L006" :> [zone |-> LOW_SHELF])

\* the distinct transactions a sales file is made of
SalesRows ==
    {Row("P001", "L001", 1, FALSE), Row("P001", "L001", 0, FALSE), Row("P001", "L001", 2, TRUE),
     Row("P001", "L002", 1, FALSE),
     Row("P001", "L003", 2, FALSE), Row("P001", "L003", 3, TRUE),
     Row("P001", "L004", 2, FALSE),
     Row("P001", "L006", 1, FALSE),
     Row("P002", "L001", 1, FALSE), Row("P002", "L005", 1, FALSE)}

\* how many times one distinct transaction is repeated in a sales file
BatchSizes == {10, 30, 150}

\* a sales file holds at most MaxBatches distinct transactions
MaxBatches == 3

Datasets ==
    UNION {[rows -> BatchSizes] :
              rows \in {x \in SUBSET SalesRows : x # {} /\ Cardinality(x) <= MaxBatches}}

\* transactions with a negative units_sold, of a product that products.json
\* does not list, and at a location that locations.json does not list
EdgeRows ==
    {Row("P001", "L001", 0 - 1, FALSE), Row("P001", "L001", 1, FALSE),
     Row("P001", "L003", 2, FALSE),
     Row("P999", "L003", 2, FALSE), Row("P001", "L999", 2, FALSE)}

EdgeBatchSizes == {10, 30}

EdgeDatasets == UNION {[rows -> EdgeBatchSizes] : rows \in (SUBSET EdgeRows) \ {{}}}

\* transactions of products whose category is not a key of INDUSTRY_DEFAULTS
OutsideCatalogRows ==
    {Row("P003", "L001", 1, FALSE), Row("P003", "L003", 2, FALSE),
     Row("P004", "L001", 1, FALSE), Row("P004", "L003", 3, FALSE),
     Row("P001", "L001", 1, FALSE)}

OutsideCatalogDatasets ==
    {[r \in rows |-> DEFAULT_MIN_SAMPLE_SIZE] : rows \in (SUBSET OutsideCatalogRows) \ {{}}}

\* a header line and no rows
EmptyFrame == <<>>

\* the rows of the files whose header varies
SchemaProbeFrame == (Row("P001", "L001", 1, FALSE) :> 30) @@ (Row("P001", "L003", 2, FALSE) :> 30)

all_columns == required_cols \cup optional_cols

SalesFiles ==
    {CsvFile(TRUE, all_columns, df) :
        df \in Datasets \cup EdgeDatasets \cup OutsideCatalogDatasets \cup {EmptyFrame}}
    \cup {CsvFile(TRUE, columns, SchemaProbeFrame) : columns \in SUBSET all_columns}
    \cup {CsvFile(FALSE, {}, EmptyFrame)}

\* no sales file (no path given, or the path does not exist), or an existing one
SalesSources == {None} \cup {Some(file) : file \in SalesFiles}

MinSampleSizes == {DEFAULT_MIN_SAMPLE_SIZE, 10}

\* the sales files a manager with a min_sample_size other than the default is given
ConfiguredDatasets == {df \in Datasets : Cardinality(DOMAIN df) <= 2}

\* the constructor arguments: every source with the default min_sample_size,
\* and the sources of ConfiguredDatasets with every min_sample_size
Configurations ==
    {[sales_csv_path |-> src, min_sample_size |-> DEFAULT_MIN_SAMPLE_SIZE] : src \in SalesSources}
    \cup {[sales_csv_path |-> Some(CsvFile(TRUE, all_columns, df)), min_sample_size |-> m] :
              df \in ConfiguredDatasets, m \in MinSampleSizes}

QueryCategories == (DOMAIN INDUSTRY_DEFAULTS) \cup {"Toys", "snacks"}

QueryZones ==
    {ENDCAP, Label_End_Cap, Label_end_cap, Label_ENDCAP,
     EYE_LEVEL, Label_Eye_Level, EYELEVEL,
     CHECKOUT, Label_Checkout,
     LOW_SHELF, Label_Low_Shelf, LOWSHELF,
     REGULAR_SHELF, Label_Main_Entrance}

QueryLocations == (DOMAIN LocationsFile) \cup {"L999"}

\* the arguments the query actions below are called with
CalledCategories == {"Snacks", "Toys"}
CalledZones == {Label_End_Cap, EYELEVEL, LOW_SHELF}
CalledLocations == {"L003", "L999"}

-----------------------------------------------------------------------------
(* The manager *)

\* lines 90-99 without the try/except: the frame is kept whatever was raised
load_sales_unguarded(src) ==
    IF src = None THEN [loader |-> None, raised |-> None]
    ELSE [loader |-> Some([df |-> src[1].df, columns |-> src[1].columns]),
          raised |-> SalesDataLoader(src[1]).raised]

\* lines 90-99: the loader is built when the path exists; an exception of the
\* loader is logged and leaves sales_loader None
load_sales(src) ==
    IF src = None THEN [loader |-> None, raised |-> None]
    ELSE SalesDataLoader(src[1])

\* no compute_all_metrics call is in progress
no_run ==
    /\ pc = "idle"
    /\ run_location_metadata = EmptyDict
    /\ local_category_lifts = EmptyDict

\* the manager stands alone: no analyzer holds it and no workflow runs
no_workflow ==
    /\ data_manager = None
    /\ state = EmptyDict
    /\ node = "none"
    /\ outcome = "none"

\* AdaptiveDataManager.__init__, lines 67-99
Init ==
    \E cfg \in Configurations :
        /\ min_sample_size = cfg.min_sample_size
        /\ sales_csv_path = cfg.sales_csv_path
        /\ load_error = load_sales(cfg.sales_csv_path).raised
        /\ sales_loader = load_sales(cfg.sales_csv_path).loader
        /\ category_lifts = EmptyDict
        /\ location_performance = EmptyDict
        /\ metadata = EmptyDict
        /\ last_run = "none"
        /\ total_trans = None
        /\ quality = None
        /\ no_run
        /\ no_workflow

\* AdaptiveDataManager.compute_all_metrics, lines 101-143.  category_lifts is
\* assigned (line 117) before compute_location_performance can raise (line 123),
\* and location_performance before _generate_metadata can raise (line 130).
\* A frame read from a header line alone has untyped (string) columns: depending
\* on the Polars build the comparison of line 149 or the sum of line 223 is
\* rejected, and otherwise get_data_summary raises; the run completes in no build.
compute_all_metrics ==
    LET lifts == compute_category_lifts_adaptive(sales_loader, min_sample_size,
                                                 ProductsFile, LocationsFile)
    IN  IF sales_loader # None /\ DOMAIN sales_loader[1].df = {}
        THEN \/ /\ last_run' = "ComputeError"
                /\ UNCHANGED <<category_lifts, location_performance, metadata>>
             \/ /\ category_lifts' = lifts
                /\ last_run' = "InvalidOperationError"
                /\ UNCHANGED <<location_performance, metadata>>
             \/ /\ category_lifts' = lifts
                /\ location_performance' = compute_location_performance(sales_loader[1].df)
                /\ last_run' = get_data_summary_raises(sales_loader[1].df,
                                                       sales_loader[1].columns)[1]
                /\ UNCHANGED metadata
        ELSE IF sales_loader # None /\ location_performance_raises(sales_loader[1].df)
        THEN /\ category_lifts' = lifts
             /\ last_run' = "ZeroDivisionError"
             /\ UNCHANGED <<location_performance, metadata>>
        ELSE /\ category_lifts' = lifts
             /\ location_performance' =
                    IF sales_loader # None
                    THEN compute_location_performance(sales_loader[1].df)
                    ELSE get_default_location_performance(LocationsFile)
             /\ metadata' = generate_metadata(sales_loader, lifts)
             /\ last_run' = "ok"

\* one call of compute_all_metrics on the manager
ComputeAllMetrics ==
    /\ compute_all_metrics
    /\ UNCHANGED <<sales_csv_path, load_error, sales_loader, min_sample_size,
                   total_trans, quality, run_vars, workflow_vars>>

\* a get_category_lift that empties the store
GetCategoryLiftClearing ==
    /\ category_lifts' = EmptyDict
    /\ UNCHANGED <<sales_csv_path, load_error, sales_loader, min_sample_size,
                   location_performance, metadata, last_run, total_trans, quality,
                   run_vars, workflow_vars>>

\* get_category_lift and get_location_performance read the store and write
\* nothing; what they return is get_category_lift(category_lifts, category, zone)
\* and get_location_performance(location_performance, location_id).
GetCategoryLift ==
    \E category \in CalledCategories, zone \in CalledZones :
        /\ get_category_lift(category_lifts, category, zone) \in
               [lift : Seq(Int), source : STRING, confidence : STRING, sample_size : Int]
        /\ UNCHANGED vars

GetLocationPerformance ==
    \E location_id \in CalledLocations :
        /\ get_location_performance(location_performance, location_id) \in Int
        /\ UNCHANGED vars

Next == ComputeAllMetrics \/ GetCategoryLift \/ GetLocationPerformance

Spec == Init /\ [][Next]_vars

-----------------------------------------------------------------------------
(* _assess_data_quality as a function of the transaction count alone *)

\* the largest total transaction count the quality assessment is applied to
MaxTransactions == 3100

InitQuality ==
    \E n \in 0..MaxTransactions :
        /\ total_trans = n
        /\ quality = None
        /\ min_sample_size = DEFAULT_MIN_SAMPLE_SIZE
        /\ sales_csv_path = None
        /\ load_error = None
        /\ sales_loader = None
        /\ category_lifts = EmptyDict
        /\ location_performance = EmptyDict
        /\ metadata = EmptyDict
        /\ last_run = "none"
        /\ no_run
        /\ no_workflow

\* one call _assess_data_quality({'total_transactions': total_trans})
AssessDataQuality ==
    /\ quality' = Some(assess_data_quality(total_trans))
    /\ UNCHANGED <<sales_csv_path, load_error, sales_loader, min_sample_size,
                   category_lifts, location_performance, metadata, last_run, total_trans,
                   run_vars, workflow_vars>>

NextQuality == AssessDataQuality

SpecQuality == InitQuality /\ [][NextQuality]_vars

-----------------------------------------------------------------------------
(* compute_all_metrics statement by statement, with queries between the
   statements: the locals of the call are run_location_metadata and
   local_category_lifts, the dictionary _compute_category_lifts_adaptive fills
   and returns *)

\* INDUSTRY_DEFAULTS.keys() and the zones of each category, in iteration order
CATEGORY_ORDER == <<"Beverages", "Snacks", "Dairy", "Bakery", "Personal Care">>
ZONE_ORDER == <<ENDCAP, EYE_LEVEL, CHECKOUT, LOW_SHELF>>

\* data/input/locations.json after L003 was relabelled from an end cap to a checkout
LocationsFileRelabelled == [LocationsFile EXCEPT !["L003"] = [zone |-> Label_Checkout]]

\* what _load_location_metadata can read at the start of a run
LocationsFiles == {LocationsFile, LocationsFileRelabelled}

\* the transactions of the sales files of the runs followed statement by statement
StepRows ==
    {Row("P001", "L001", 1, FALSE), Row("P001", "L001", 0, FALSE), Row("P001", "L003", 2, FALSE)}

StepSources ==
    {None} \cup {Some(CsvFile(TRUE, all_columns, df)) :
                    df \in {d \in Datasets : DOMAIN d \subseteq StepRows}}

InitSteps ==
    /\ Init
    /\ sales_csv_path \in StepSources
    /\ min_sample_size = DEFAULT_MIN_SAMPLE_SIZE

\* the category has its four zones in the dictionary
category_resolved(lifts_so_far, category) ==
    /\ category \in DOMAIN lifts_so_far
    /\ DOMAIN lifts_so_far[category] = RESOLVER_ZONES

all_resolved(lifts_so_far) ==
    \A i \in 1..Len(CATEGORY_ORDER) : category_resolved(lifts_so_far, CATEGORY_ORDER[i])

\* the category the loop of lines 171, 212 stands at
current_category(lifts_so_far) ==
    LET i == CHOOSE i \in 1..Len(CATEGORY_ORDER) :
                 /\ ~category_resolved(lifts_so_far, CATEGORY_ORDER[i])
                 /\ \A j \in 1..(i - 1) : category_resolved(lifts_so_far, CATEGORY_ORDER[j])
    IN  CATEGORY_ORDER[i]

\* the zone the inner loop stands at
current_zone(zones_so_far) ==
    LET i == CHOOSE i \in 1..Len(ZONE_ORDER) :
                 /\ ZONE_ORDER[i] \notin DOMAIN zones_so_far
                 /\ \A j \in 1..(i - 1) : ZONE_ORDER[j] \in DOMAIN zones_so_far
    IN  ZONE_ORDER[i]

\* the dictionary after the next assignment of the loops of lines 170-220:
\* category_lifts[category] = {} or category_lifts[category][zone] = {...}
after_next_assignment(lifts_so_far, loader, min_samples, product_metadata, locations) ==
    LET category == current_category(lifts_so_far)
    IN  IF category \notin DOMAIN lifts_so_far
        THEN lifts_so_far @@ (category :> EmptyDict)
        ELSE LET zone == current_zone(lifts_so_far[category])
                 entry == compute_category_lifts_adaptive(
                              loader, min_samples, product_metadata, locations)[category][zone]
             IN  [lifts_so_far EXCEPT ![category] = @ @@ (zone :> entry)]

\* lines 112-114 and 160: the metadata files are read, the local dictionary is empty
LoadMetadata ==
    /\ pc = "idle"
    /\ \E file \in LocationsFiles : run_location_metadata' = file
    /\ local_category_lifts' = EmptyDict
    /\ pc' = "merge"
    /\ UNCHANGED <<sales_csv_path, load_error, sales_loader, min_sample_size, category_lifts,
                   location_performance, metadata, last_run, total_trans, quality,
                   workflow_vars>>

\* the loops of lines 170-220 filling self.category_lifts itself
ResolveNextInPlace ==
    /\ pc = "merge"
    /\ ~all_resolved(local_category_lifts)
    /\ local_category_lifts' =
           after_next_assignment(local_category_lifts, sales_loader, min_sample_size,
                                 ProductsFile, run_location_metadata)
    /\ category_lifts' = local_category_lifts'
    /\ UNCHANGED <<sales_csv_path, load_error, sales_loader, min_sample_size,
                   location_performance, metadata, last_run, total_trans, quality,
                   pc, run_location_metadata, workflow_vars>>

\* one assignment of the loops of lines 170-220 to the local dictionary
ResolveNext ==
    /\ pc = "merge"
    /\ ~all_resolved(local_category_lifts)
    /\ local_category_lifts' =
           after_next_assignment(local_category_lifts, sales_loader, min_sample_size,
                                 ProductsFile, run_location_metadata)
    /\ UNCHANGED <<sales_csv_path, load_error, sales_loader, min_sample_size, category_lifts,
                   location_performance, metadata, last_run, total_trans, quality,
                   pc, run_location_metadata, workflow_vars>>

\* line 222 and line 117: the dictionary is returned and assigned to self.category_lifts
PublishCategoryLifts ==
    /\ pc = "merge"
    /\ all_resolved(local_category_lifts)
    /\ category_lifts' = local_category_lifts
    /\ local_category_lifts' = EmptyDict
    /\ pc' = "performance"
    /\ UNCHANGED <<sales_csv_path, load_error, sales_loader, min_sample_size,
                   location_performance, metadata, last_run, total_trans, quality,
                   run_location_metadata, workflow_vars>>

\* lines 122-127; the division of data_loader.py line 233 can raise
StoreLocationPerformance ==
    /\ pc = "performance"
    /\ IF sales_loader # None /\ location_performance_raises(sales_loader[1].df)
       THEN /\ last_run' = "ZeroDivisionError"
            /\ pc' = "idle"
            /\ run_location_metadata' = EmptyDict
            /\ UNCHANGED location_performance
       ELSE /\ location_performance' =
                   IF sales_loader # None
                   THEN compute_location_performance(sales_loader[1].df)
                   ELSE get_default_location_performance(run_location_metadata)
            /\ pc' = "metadata"
            /\ UNCHANGED <<last_run, run_location_metadata>>
    /\ UNCHANGED <<sales_csv_path, load_error, sales_loader, min_sample_size, category_lifts,
                   metadata, total_trans, quality, local_category_lifts, workflow_vars>>

\* lines 130-143
StoreMetadata ==
    /\ pc = "metadata"
    /\ metadata' = generate_metadata(sales_loader, category_lifts)
    /\ last_run' = "ok"
    /\ pc' = "idle"
    /\ run_location_metadata' = EmptyDict
    /\ UNCHANGED <<sales_csv_path, load_error, sales_loader, min_sample_size, category_lifts,
                   location_performance, total_trans, quality, local_category_lifts,
                   workflow_vars>>

NextSteps ==
    \/ LoadMetadata
    \/ ResolveNext
    \/ PublishCategoryLifts
    \/ StoreLocationPerformance
    \/ StoreMetadata
    \/ GetCategoryLift
    \/ GetLocationPerformance

SpecSteps == InitSteps /\ [][NextSteps]_vars

-----------------------------------------------------------------------------
(* AnalyzerAgentV2 and the workflow of OrchestratorV2, src/agents/analyzer_agent.py
   and src/workflows/orchestrator.py.  The manager variables are the state of
   the AdaptiveDataManager the analyzer constructs; ROI values, costs and
   explanations are left out, what is kept of them is whether a location is
   affordable and whether a step raised. *)

\* more than FAIR_TRANSACTIONS transactions
FairFrame == (Row("P001", "L001", 1, FALSE) :> 450) @@ (Row("P001", "L003", 2, FALSE) :> 150)

ZeroUnitsFrame == (Row("P001", "L001", 0, FALSE) :> 10)

\* data_dir/input/sales_history.csv: absent, or one of these files
WorkflowSources ==
    {None}
    \cup {Some(CsvFile(TRUE, all_columns, df)) :
              df \in {SchemaProbeFrame, FairFrame, ZeroUnitsFrame, EmptyFrame}}
    \cup {Some(CsvFile(FALSE, {}, EmptyFrame))}

\* self.locations of the analyzer as _load_locations fills it, with the
\* placement cost the cost manager gives each
AnalyzerLocations ==
    ("End Cap 1" :> [zone |-> Label_End_Cap, placement_cost |-> 1200])
 @@ ("Checkout 1" :> [zone |-> CHECKOUT, placement_cost |-> 800])

\* the ProductInput objects execute is called with: a product_name of one space
\* passes min_length = 1 and fails InputAgent._validate_product
ProductInputs ==
    [product_name : {"Chips", " "}, category : {"Snacks", "Toys"},
     budget : {500, 1000, 5000}, expected_roi : {15, 40}]

\* OrchestratorV2.__init__ before the analyzer initializes its data manager
InitWorkflow ==
    \E src \in WorkflowSources :
        /\ min_sample_size = DEFAULT_MIN_SAMPLE_SIZE
        /\ sales_csv_path = src
        /\ load_error = load_sales(src).raised
        /\ sales_loader = load_sales(src).loader
        /\ category_lifts = EmptyDict
        /\ location_performance = EmptyDict
        /\ metadata = EmptyDict
        /\ last_run = "none"
        /\ total_trans = None
        /\ quality = None
        /\ no_run
        /\ data_manager = None
        /\ state = EmptyDict
        /\ node = "construct"
        /\ outcome = "none"

\* AnalyzerAgentV2._initialize_data_manager, analyzer_agent.py lines 59-80: the
\* manager is built and compute_all_metrics called when the sales file exists;
\* an exception leaves data_manager None, and so does a missing file
InitializeDataManager ==
    /\ node = "construct"
    /\ IF sales_csv_path = None
       THEN /\ data_manager' = None
            /\ UNCHANGED <<category_lifts, location_performance, metadata, last_run>>
       ELSE /\ compute_all_metrics
            /\ data_manager' = IF last_run' = "ok" THEN Some("AdaptiveDataManager") ELSE None
    /\ node' = "ready"
    /\ UNCHANGED <<sales_csv_path, load_error, sales_loader, min_sample_size,
                   total_trans, quality, run_vars, state, outcome>>

\* _calculate_roi_transparent, analyzer_agent.py lines 217-229: the category
\* lift the ROI uses and the provenance reported in data_quality.category_lift
category_lift_info(manager, lifts, category, zone) ==
    IF manager # None
    THEN get_category_lift(lifts, category, zone)
    ELSE Entry(Some(NEUTRAL_LIFT), "fallback", "low", 0)

\* OrchestratorV2.execute, lines 347-354: the initial WorkflowState
initial_state(product_input) ==
    [product_input |-> product_input, placement_state |-> None, step |-> "init",
     errors |-> <<>>, warnings |-> <<>>, recommendation |-> EmptyDict, metadata |-> EmptyDict]

\* the routing functions, lines 305-328
should_continue_from_validation(s) == IF s.errors # <<>> THEN "error" ELSE "continue"

route_based_on_quality(s) ==
    IF s.errors # <<>> THEN "error"
    ELSE IF "data_quality" \in DOMAIN s.metadata
               /\ s.metadata.data_quality.quality_level = "poor"
    THEN "warning"
    ELSE "analyze"

should_continue_from_analysis(s) == IF s.errors # <<>> THEN "error" ELSE "continue"

\* lines 110-118 with the warning route led to the error handler
quality_edges_warning_to_error ==
    [analyze |-> "analyze_roi", warning |-> "handle_error", error |-> "handle_error"]

\* the conditional edges of _build_workflow, lines 100-128
validation_edges == [continue |-> "check_data_quality", error |-> "handle_error"]
quality_edges == [analyze |-> "analyze_roi", warning |-> "analyze_roi", error |-> "handle_error"]
analysis_edges == [continue |-> "explain", error |-> "handle_error"]

\* execute, lines 347-358: workflow.invoke starts at the entry point (line 97)
Execute ==
    /\ node = "ready"
    /\ \E product_input \in ProductInputs : state' = initial_state(product_input)
    /\ node' = "validate_input"
    /\ UNCHANGED <<sales_csv_path, load_error, sales_loader, min_sample_size, category_lifts,
                   location_performance, metadata, last_run, total_trans, quality,
                   run_vars, data_manager, outcome>>

\* _validate_input_node, lines 139-172, and InputAgent.execute: a blank name
\* raises ValueError, an expected_roi above 3.0 is a warning
ValidateInputNode ==
    /\ node = "validate_input"
    /\ LET product == state.product_input
           after == IF product.product_name = " "
                    THEN [state EXCEPT !.errors = <<"Product name cannot be empty">>,
                                       !.step = "validation_error"]
                    ELSE LET warnings == IF product.expected_roi > 30
                                         THEN <<"InputAgent: Expected ROI is very ambitious">>
                                         ELSE <<>>
                         IN  [state EXCEPT
                                 !.placement_state =
                                     Some([product |-> product, errors |-> <<>>,
                                           warnings |-> warnings,
                                           roi_data_quality |-> EmptyDict,
                                           final_recommendations |-> None,
                                           explanation |-> None]),
                                 !.step = "validated",
                                 !.errors = <<>>,
                                 !.warnings = warnings]
       IN  /\ state' = after
           /\ node' = validation_edges[should_continue_from_validation(after)]
    /\ UNCHANGED <<sales_csv_path, load_error, sales_loader, min_sample_size, category_lifts,
                   location_performance, metadata, last_run, total_trans, quality,
                   run_vars, data_manager, outcome>>

\* _check_data_quality_node, lines 175-206: only warnings are added
CheckDataQualityNode ==
    /\ node = "check_data_quality"
    /\ LET checked ==
               IF data_manager # None
               THEN IF "data_quality" \in DOMAIN metadata
                    THEN [state EXCEPT
                             !.metadata = [data_quality |-> metadata.data_quality],
                             !.warnings =
                                 IF metadata.data_quality.quality_level = "poor"
                                 THEN Append(@, "data_quality recommendation")
                                 ELSE @]
                    ELSE [state EXCEPT !.warnings =
                             Append(@, "Using industry defaults - no sales data available")]
               ELSE [state EXCEPT !.warnings =
                        Append(@, "No data manager - using all defaults")]
           after == [checked EXCEPT !.step = "quality_checked"]
       IN  /\ state' = after
           /\ node' = quality_edges[route_based_on_quality(after)]
    /\ UNCHANGED <<sales_csv_path, load_error, sales_loader, min_sample_size, category_lifts,
                   location_performance, metadata, last_run, total_trans, quality,
                   run_vars, data_manager, outcome>>

\* _analyze_roi_node, lines 208-242, and AnalyzerAgentV2.execute, lines 114-186:
\* every location is scored, those above the budget are skipped, and none left
\* is an error; an exception of the scoring is caught by the node.  The errors
\* list of the WorkflowState may be the list of the PlacementState itself, so
\* extending it gives the error once or twice.
AnalyzeRoiNode ==
    /\ node = "analyze_roi"
    /\ LET placement_state == state.placement_state[1]
           product == placement_state.product
           scored == [location \in DOMAIN AnalyzerLocations |->
                         category_lift_info(data_manager, category_lifts, product.category,
                                            AnalyzerLocations[location].zone)]
           affordable == {location \in DOMAIN AnalyzerLocations :
                             AnalyzerLocations[location].placement_cost <= product.budget}
           no_location == <<"No locations found within budget",
                            "No shelf locations are affordable within the given budget">>
       IN  \E raised \in BOOLEAN, aliased \in BOOLEAN :
               LET after ==
                       IF raised
                       THEN [state EXCEPT !.errors = Append(@, "analysis exception"),
                                          !.step = "analysis_error"]
                       ELSE IF affordable = {}
                       THEN [state EXCEPT
                                !.placement_state =
                                    Some([placement_state EXCEPT
                                             !.errors = @ \o no_location]),
                                !.errors = IF aliased THEN no_location \o no_location
                                           ELSE no_location,
                                !.step = "analyzed"]
                       ELSE [state EXCEPT
                                !.placement_state =
                                    Some([placement_state EXCEPT
                                             !.roi_data_quality =
                                                 [location \in affordable |-> scored[location]],
                                             !.final_recommendations = Some(affordable)]),
                                !.step = "analyzed"]
               IN  /\ (aliased => (~raised /\ affordable = {}))
                   /\ state' = after
                   /\ node' = analysis_edges[should_continue_from_analysis(after)]
    /\ UNCHANGED <<sales_csv_path, load_error, sales_loader, min_sample_size, category_lifts,
                   location_performance, metadata, last_run, total_trans, quality,
                   run_vars, data_manager, outcome>>

\* _explain_node, lines 244-280: an exception of the explainer is recorded and
\* the run still goes to END (line 131)
ExplainNode ==
    /\ node = "explain"
    /\ \E raised \in BOOLEAN :
           state' =
               IF raised
               THEN [state EXCEPT !.errors = Append(@, "explanation exception"),
                                  !.step = "explanation_error"]
               ELSE [state EXCEPT
                        !.placement_state =
                            Some([state.placement_state[1] EXCEPT
                                     !.explanation = Some("Explanation")]),
                        !.step = "complete",
                        !.recommendation =
                            [recommendations |->
                                 state.placement_state[1].final_recommendations]]
    /\ node' = "END"
    /\ UNCHANGED <<sales_csv_path, load_error, sales_loader, min_sample_size, category_lifts,
                   location_performance, metadata, last_run, total_trans, quality,
                   run_vars, data_manager, outcome>>

\* _handle_error_node, lines 282-301, and the edge to END of line 134
HandleErrorNode ==
    /\ node = "handle_error"
    /\ state' = [state EXCEPT
                    !.recommendation = [success |-> FALSE, errors |-> state.errors,
                                        step_failed |-> state.step],
                    !.step = "error_handled"]
    /\ node' = "END"
    /\ UNCHANGED <<sales_csv_path, load_error, sales_loader, min_sample_size, category_lifts,
                   location_performance, metadata, last_run, total_trans, quality,
                   run_vars, data_manager, outcome>>

\* execute, lines 360-385: with errors in the final state ValueError is raised,
\* otherwise the Recommendation is built and returned
ExecuteReturns ==
    /\ node = "END"
    /\ outcome' = IF state.errors # <<>> THEN "ValueError" ELSE "Recommendation"
    /\ node' = "returned"
    /\ UNCHANGED <<sales_csv_path, load_error, sales_loader, min_sample_size, category_lifts,
                   location_performance, metadata, last_run, total_trans, quality,
                   run_vars, data_manager, state>>

\* the steps of a run that execute has started
RunWorkflow ==
    \/ ValidateInputNode
    \/ CheckDataQualityNode
    \/ AnalyzeRoiNode
    \/ ExplainNode
    \/ HandleErrorNode
    \/ ExecuteReturns

NextWorkflow == InitializeDataManager \/ Execute \/ RunWorkflow

\* workflow.invoke runs every node it reaches, and execute runs to its end
SpecWorkflow == InitWorkflow /\ [][NextWorkflow]_vars /\ WF_vars(RunWorkflow)

-----------------------------------------------------------------------------
(* Properties *)

CatalogCategories == DOMAIN INDUSTRY_DEFAULTS

\* some compute_all_metrics call has assigned category_lifts
computed_once == category_lifts # EmptyDict

has_sales_data == sales_loader # None

\* the cells of the store, as <<category, zone>>
stored_cells == {cz \in (DOMAIN category_lifts) \X RESOLVER_ZONES :
                    cz[2] \in DOMAIN category_lifts[cz[1]]}

\* C1: in every state of the store (before a compute run, after a run with sales
\* data, after a run without), get_category_lift(c, z) for every catalog
\* category c and every catalog zone z returns a record whose source is one of
\* computed, industry_default, fallback and whose lift is a number, not None.
FallbackCompleteness ==
    \A category \in CatalogCategories, zone \in RESOLVER_ZONES :
        LET info == get_category_lift(category_lifts, category, zone)
        IN  /\ info.source \in {"computed", "industry_default", "fallback"}
            /\ info.lift # None
            /\ info.lift[1] \in Int

\* a run over sales data has left a computed cell next to cells of the same
\* category that fell back to the industry default
FallbackCompletenessWitness ==
    /\ last_run = "ok" /\ has_sales_data
    /\ \E category \in CatalogCategories :
          /\ get_category_lift(category_lifts, category, ENDCAP).source = "computed"
          /\ get_category_lift(category_lifts, category, CHECKOUT).source = "industry_default"
          /\ get_category_lift(category_lifts, category, LOW_SHELF).source = "industry_default"

\* C2: after any compute run, every stored entry with source = computed has
\* sample_size >= min_sample_size, confidence high or medium, and a lift that
\* is not None.
ComputedEntriesAreSufficient ==
    \A cz \in stored_cells :
        LET info == category_lifts[cz[1]][cz[2]]
        IN  info.source = "computed" =>
                /\ info.sample_size >= min_sample_size
                /\ info.confidence \in {"high", "medium"}
                /\ info.lift # None

\* a computed entry whose sample is exactly min_sample_size, and one of high confidence
ComputedEntriesAreSufficientWitness ==
    /\ last_run = "ok"
    /\ \E cz \in stored_cells :
          /\ category_lifts[cz[1]][cz[2]].source = "computed"
          /\ category_lifts[cz[1]][cz[2]].sample_size = min_sample_size
          /\ category_lifts[cz[1]][cz[2]].confidence = "medium"

\* the DataFrame the loader holds
loaded_df == sales_loader[1].df

\* a zone label with letter case, spaces and underscores taken out
strip_case_and_separators(label) ==
    str_replace(str_replace(str_lower(label), " ", <<>>), "_", <<>>)

canonical_zone_strings == [z \in ZoneStrings |-> strip_case_and_separators(z)]

canonical_zone(label) ==
    IF label \in ZoneStrings THEN canonical_zone_strings[label]
    ELSE strip_case_and_separators(label)

\* the zone label and the catalog category of a transaction
label_of(row) ==
    IF row.location_id \in DOMAIN LocationsFile
    THEN LocationsFile[row.location_id].zone ELSE <<>>
in_category(row, category) == category_of(row, ProductsFile) = Some(category)

\* the non-promoted transactions of df for a category whose label names the zone
observed_rows(df, category, zone) ==
    df_filter(df, {r \in DOMAIN df :
        /\ ~r.was_promoted
        /\ in_category(r, category)
        /\ canonical_zone(label_of(r)) = canonical_zone(zone)})

\* the non-promoted transactions of df for a category whose label names a baseline zone
observed_baseline_rows(df, category) ==
    df_filter(df, {r \in DOMAIN df :
        /\ ~r.was_promoted
        /\ in_category(r, category)
        /\ canonical_zone(label_of(r)) \in
               {canonical_zone(REGULAR), canonical_zone(REGULAR_SHELF), canonical_zone(MID_SHELF)}})

\* the store a compute run over df would produce
lifts_of(df) ==
    compute_category_lifts_adaptive(Some([df |-> df, columns |-> all_columns]),
                                    min_sample_size, ProductsFile, LocationsFile)

\* C3: after any compute run, every cell resolved with source = industry_default
\* carries as sample_size the number of non-promoted transactions observed for
\* that (category, zone), and 0 only when there is none (10 Dairy/checkout
\* transactions give sample_size 10).
DefaultKeepsObservedSampleSize ==
    (computed_once /\ has_sales_data) =>
        \A cz \in stored_cells :
            category_lifts[cz[1]][cz[2]].source = "industry_default" =>
                category_lifts[cz[1]][cz[2]].sample_size
                    = df_len(observed_rows(loaded_df, cz[1], cz[2]))

\* df with its promoted transactions taken out
without_promoted(df) == df_filter(df, {r \in DOMAIN df : ~r.was_promoted})

\* df with units_sold of every promoted transaction raised by one
with_promoted_raised(df) ==
    [r \in {IF x.was_promoted
            THEN Row(x.product_id, x.location_id, x.units_sold + 1, TRUE) ELSE x :
               x \in DOMAIN df} |->
        IF r.was_promoted
        THEN df[Row(r.product_id, r.location_id, r.units_sold - 1, TRUE)] ELSE df[r]]

has_promoted(df) == \E r \in DOMAIN df : r.was_promoted

\* C4: two transaction sets that differ only in the values or the presence of
\* promoted transactions give the same category-lift entries for every cell: the
\* store computed from the loaded set is the store computed from the set with the
\* promoted transactions removed, and from the set with their units_sold changed.
PromotionExclusionLift ==
    (computed_once /\ has_sales_data /\ has_promoted(loaded_df)) =>
        /\ lifts_of(without_promoted(loaded_df)) = category_lifts
        /\ lifts_of(with_promoted_raised(loaded_df)) = category_lifts

\* a run over a set that holds promoted endcap transactions of a category beside
\* enough unpromoted ones for a computed endcap lift
PromotionExclusionLiftWitness ==
    /\ last_run = "ok" /\ has_sales_data
    /\ \E r \in DOMAIN loaded_df :
          /\ r.was_promoted
          /\ canonical_zone(label_of(r)) = canonical_zone(ENDCAP)
          /\ \E category \in CatalogCategories :
                /\ in_category(r, category)
                /\ category_lifts[category][ENDCAP].source = "computed"

\* C5: two transaction sets that differ only in units_sold of promoted
\* transactions give the same location-performance index for every location.
PromotionExclusionLocation ==
    (last_run = "ok" /\ has_sales_data /\ has_promoted(loaded_df)) =>
        compute_location_performance(with_promoted_raised(loaded_df)) = location_performance

\* C6: a category without non-promoted baseline-zone transactions, or whose
\* baseline mean is zero, has no computed cell after a compute run: each of its
\* cells carries the industry-default lift, source industry_default, confidence low.
BaselineSensitivity ==
    (computed_once /\ has_sales_data) =>
        \A category \in CatalogCategories :
            units_sum(observed_baseline_rows(loaded_df, category)) = 0 =>
                \A zone \in RESOLVER_ZONES :
                    /\ zone \in DOMAIN category_lifts[category]
                    /\ category_lifts[category][zone].lift
                           = Some(INDUSTRY_DEFAULTS[category][zone])
                    /\ category_lifts[category][zone].source = "industry_default"
                    /\ category_lifts[category][zone].confidence = "low"

\* a run over a set with a full endcap sample of a category and no usable baseline
BaselineSensitivityWitness ==
    /\ last_run = "ok" /\ has_sales_data
    /\ \E category \in CatalogCategories :
          /\ units_sum(observed_baseline_rows(loaded_df, category)) = 0
          /\ df_len(observed_baseline_rows(loaded_df, category)) > 0
          /\ df_len(observed_rows(loaded_df, category, ENDCAP)) >= HIGH_CONFIDENCE_SAMPLES
          /\ category_lifts[category][ENDCAP].source = "industry_default"

\* df with k more transactions equal to row r
bag_add(df, r, k) ==
    [x \in (DOMAIN df) \cup {r} |->
        (IF x \in DOMAIN df THEN df[x] ELSE 0) + (IF x = r THEN k ELSE 0)]

\* the order low < medium < high of the confidence tiers
confidence_rank(confidence) ==
    CASE confidence = "low" -> 0
      [] confidence = "medium" -> 1
      [] confidence = "high" -> 2

\* by how many transactions the sample of a cell grows
GrowthSizes == {20, 120}

\* the non-promoted transactions that can be added to the cell (category, zone)
growth_rows(category, zone) ==
    {r \in SalesRows :
        /\ ~r.was_promoted
        /\ in_category(r, category)
        /\ canonical_zone(label_of(r)) = canonical_zone(zone)}

\* C7: for a catalog cell of a category with baseline transactions and a fixed
\* min_sample_size, adding non-promoted transactions to the cell never lowers the
\* confidence tier of its resolved entry under the order low < medium < high.
ConfidenceMonotone ==
    (computed_once /\ has_sales_data) =>
        \A category \in CatalogCategories :
            df_len(observed_baseline_rows(loaded_df, category)) > 0 =>
                \A zone \in RESOLVER_ZONES :
                    \A r \in growth_rows(category, zone) :
                        \A k \in GrowthSizes :
                            confidence_rank(
                                lifts_of(bag_add(loaded_df, r, k))[category][zone].confidence)
                              >= confidence_rank(category_lifts[category][zone].confidence)

\* a run that stored a medium-confidence cell which more transactions lift to high
ConfidenceMonotoneWitness ==
    /\ last_run = "ok" /\ has_sales_data
    /\ \E category \in CatalogCategories :
          /\ df_len(observed_baseline_rows(loaded_df, category)) > 0
          /\ \E zone \in RESOLVER_ZONES :
                /\ category_lifts[category][zone].confidence = "medium"
                /\ \E r \in growth_rows(category, zone) :
                      \E k \in GrowthSizes :
                          lifts_of(bag_add(loaded_df, r, k))[category][zone].confidence
                              = "high"

\* C8: for every catalog category and catalog zone, get_category_lift returns
\* the same record for all caller spellings of the zone that differ only in
\* letter case, spaces and underscores.
QuerySpellingsAgree ==
    computed_once =>
        \A category \in CatalogCategories :
            \A zone \in RESOLVER_ZONES :
                \A spelling \in QueryZones :
                    canonical_zone(spelling) = canonical_zone(zone) =>
                        get_category_lift(category_lifts, category, spelling)
                            = get_category_lift(category_lifts, category, zone)

\* the non-promoted transactions of a category, as compute_category_lifts selects them
cat_data_of(df, category) ==
    df_filter(filter_promoted(df), {r \in DOMAIN df : in_category(r, category)})

\* C9: in a compute run a transaction counts toward the baseline when its zone
\* label normalizes to regular, regular_shelf or mid_shelf, and toward a target
\* zone when its label normalizes to that zone, whatever the letter case, spaces
\* and underscores of the label.
LabelsCountAfterNormalization ==
    (computed_once /\ has_sales_data) =>
        \A category \in CatalogCategories :
            /\ baseline_rows(cat_data_of(loaded_df, category), LocationsFile)
                   = observed_baseline_rows(loaded_df, category)
            /\ \A zone \in TARGET_ZONES :
                   zone_rows(cat_data_of(loaded_df, category), LocationsFile, zone)
                       = observed_rows(loaded_df, category, zone)

\* the order poor < fair < good < excellent of the quality tiers
quality_rank(quality_level) ==
    CASE quality_level = "poor" -> 0
      [] quality_level = "fair" -> 1
      [] quality_level = "good" -> 2
      [] quality_level = "excellent" -> 3

\* transaction counts on both sides of every threshold
QualityProbes == {0, 499, 500, 999, 1000, 2999, 3000}

\* C10: the data-quality tier is a function of the total transaction count N
\* alone: N >= 3000 excellent, 1000 <= N < 3000 good, 500 <= N < 1000 fair,
\* N < 500 poor; and confidence_score is ordered as the tiers are.
QualityThresholds ==
    quality # None =>
        LET N == total_trans
            q == quality[1]
        IN  /\ q.quality_level =
                   (IF N >= 3000 THEN "excellent"
                    ELSE IF N >= 1000 THEN "good"
                    ELSE IF N >= 500 THEN "fair" ELSE "poor")
            /\ \A m \in QualityProbes :
                   LET p == assess_data_quality(m)
                   IN  /\ quality_rank(p.quality_level) > quality_rank(q.quality_level)
                          <=> p.confidence_score > q.confidence_score
                       /\ quality_rank(p.quality_level) = quality_rank(q.quality_level)
                          <=> p.confidence_score = q.confidence_score

\* the assessment of exactly 3000 transactions
QualityThresholdsWitness ==
    /\ quality # None
    /\ total_trans = 3000
    /\ quality[1].quality_level = "excellent"

\* a compute_all_metrics call has been made
compute_called == last_run # "none"

\* the manager was given no sales file, one that cannot be read, or one without rows
no_transactions ==
    \/ sales_csv_path = None
    \/ ~sales_csv_path[1].readable
    \/ (sales_loader # None /\ DOMAIN loaded_df = {})

\* C11: after a compute run over zero transactions (sales source absent,
\* unreadable, or present with zero rows) the metadata snapshot holds a
\* data-quality record with quality_level poor and confidence_score 0.50.
ZeroTransactionsQualityRecord ==
    (compute_called /\ no_transactions) =>
        /\ "data_quality" \in DOMAIN metadata
        /\ metadata.data_quality.quality_level = "poor"
        /\ metadata.data_quality.confidence_score = 50

\* the entry of a cell that holds the static table value and nothing observed
default_cell(category, zone) ==
    Entry(Some(INDUSTRY_DEFAULTS[category][zone]), "industry_default", "low", 0)

\* every one of the 5 x 4 catalog cells is stored as its default_cell
all_cells_default ==
    /\ DOMAIN category_lifts = CatalogCategories
    /\ \A category \in CatalogCategories :
          /\ DOMAIN category_lifts[category] = RESOLVER_ZONES
          /\ \A zone \in RESOLVER_ZONES :
                category_lifts[category][zone] = default_cell(category, zone)

declared_performance(location_id) ==
    IF location_id \in DOMAIN LocationsFile
          /\ str_lower(LocationsFile[location_id].zone) \in DOMAIN zone_performance
    THEN zone_performance[str_lower(LocationsFile[location_id].zone)]
    ELSE 1000

\* C13: after a compute run in which no transactions exist (sales source absent,
\* or present with zero rows), the run has not raised and get_location_performance
\* returns for every location the index of its declared zone type, 100.0 only for
\* an unknown zone type or an undeclared location.
ZeroTransactionsLocationDefaults ==
    (compute_called /\ no_transactions) =>
        /\ last_run = "ok"
        /\ \A location_id \in QueryLocations :
              get_location_performance(location_performance, location_id)
                  = declared_performance(location_id)

\* zone spellings that name no catalog zone
UnmatchedZones == {Label_Main_Entrance, REGULAR_SHELF}

\* C14: get_category_lift with a category outside the catalog, or with a zone
\* that matches no catalog zone of a known category, returns lift 1.0, source
\* fallback, confidence low, sample_size 0; get_location_performance with a
\* location_id the store does not hold returns 100.0.
UnknownKeysNeutral ==
    /\ \A category \in QueryCategories \ CatalogCategories :
          \A zone \in QueryZones :
              get_category_lift(category_lifts, category, zone)
                  = Entry(Some(100), "fallback", "low", 0)
    /\ \A category \in CatalogCategories :
          \A zone \in UnmatchedZones :
              get_category_lift(category_lifts, category, zone)
                  = Entry(Some(100), "fallback", "low", 0)
    /\ \A location_id \in QueryLocations \ DOMAIN location_performance :
          get_location_performance(location_performance, location_id) = 1000

\* a filled store queried with an unknown category, an unmatched zone and an
\* unknown location
UnknownKeysNeutralWitness ==
    /\ last_run = "ok" /\ has_sales_data
    /\ get_category_lift(category_lifts, "Snacks", ENDCAP).source = "computed"
    /\ get_category_lift(category_lifts, "Toys", ENDCAP).source = "fallback"
    /\ get_category_lift(category_lifts, "Snacks", Label_Main_Entrance).source = "fallback"
    /\ "L001" \in DOMAIN location_performance
    /\ get_location_performance(location_performance, "L999") = 1000

\* C15: a step that is a get_category_lift or get_location_performance call
\* leaves category_lifts, location_performance and metadata unchanged, so no
\* query recomputes anything and a repeated query returns the same result.
QueriesArePureReads ==
    [][\/ UNCHANGED <<category_lifts, location_performance, metadata>>
       \/ ~(GetCategoryLift \/ GetLocationPerformance)]_vars

\* a filled store on which the queries are made; a query step leads from this
\* state to itself
QueriesArePureReadsWitness ==
    /\ last_run = "ok" /\ has_sales_data
    /\ ENABLED GetCategoryLift
    /\ ENABLED GetLocationPerformance
    /\ get_category_lift(category_lifts, "Snacks", Label_End_Cap).source = "computed"
    /\ get_location_performance(location_performance, "L003") # 1000
    /\ metadata.metrics_summary.computed_from_sales > 0

\* the manager was given a file that pl.read_csv can read
given_readable_file == sales_csv_path # None /\ sales_csv_path[1].readable

\* C16: loading a source that lacks any of the required columns product_id,
\* location_id, units_sold, revenue fails with an error naming exactly the
\* missing required columns; a source with the four required columns loads,
\* whichever optional columns are absent.
SchemaErrorNamesMissingColumns ==
    given_readable_file =>
        LET columns == sales_csv_path[1].columns
            required == {"product_id", "location_id", "units_sold", "revenue"}
        IN  IF required \subseteq columns
            THEN /\ load_error = None
                 /\ sales_loader # None
                 /\ sales_loader[1].df = sales_csv_path[1].df
            ELSE /\ sales_loader = None
                 /\ load_error # None
                 /\ load_error[1].missing = required \ columns

\* a file without units_sold, revenue and every optional column was refused, the
\* error naming units_sold and revenue only
SchemaErrorNamesMissingColumnsWitness ==
    /\ given_readable_file
    /\ sales_csv_path[1].columns = {"product_id", "location_id"}
    /\ load_error # None
    /\ load_error[1].missing = {"units_sold", "revenue"}

\* C17: a source holding a transaction with negative units_sold is rejected at
\* the load step, so no negative value reaches the metric computation.
NoNegativeUnitsLoaded ==
    (has_sales_data /\ compute_called) =>
        \A r \in DOMAIN loaded_df : r.units_sold >= 0

\* the manager was given an existing file whose loading raised
load_failed == sales_csv_path # None /\ load_error # None

ComputeNeverRaises ==
    (has_sales_data /\ DOMAIN loaded_df # {}) => last_run \in {"none", "ok"}

\* what compute_category_lifts returns for the loaded frame
computed_lifts_of_loaded ==
    compute_category_lifts(loaded_df, ProductsFile, LocationsFile, min_sample_size)

\* a computed entry of confidence high or medium exists for the cell
usable_computed_entry(computed_lifts, category, zone) ==
    /\ category \in DOMAIN computed_lifts
    /\ zone \in DOMAIN computed_lifts[category]
    /\ computed_lifts[category][zone].confidence \in {"high", "medium"}

\* C20: after a compute run with sales data, the stored entry of a catalog cell
\* is the computed one (its lift, confidence and sample_size, source computed)
\* exactly when a computed entry of confidence high or medium exists for the
\* cell; otherwise it has the industry-default lift, source industry_default and
\* confidence low.  No stored entry has source insufficient_data.
ResolverSelectionRule ==
    (computed_once /\ has_sales_data) =>
        LET computed_lifts == computed_lifts_of_loaded
        IN  \A category \in CatalogCategories :
                \A zone \in RESOLVER_ZONES :
                    LET stored == category_lifts[category][zone]
                    IN  /\ IF usable_computed_entry(computed_lifts, category, zone)
                           THEN /\ stored.source = "computed"
                                /\ stored.lift = computed_lifts[category][zone].lift
                                /\ stored.confidence = computed_lifts[category][zone].confidence
                                /\ stored.sample_size = computed_lifts[category][zone].sample_size
                           ELSE /\ stored.source = "industry_default"
                                /\ stored.lift = Some(INDUSTRY_DEFAULTS[category][zone])
                                /\ stored.confidence = "low"
                        /\ stored.source # "insufficient_data"

\* a run that stored a medium-confidence computed cell beside a cell of the same
\* category whose computed entry was insufficient_data and was replaced by the default
ResolverSelectionRuleWitness ==
    /\ last_run = "ok" /\ has_sales_data
    /\ \E category \in CatalogCategories :
          /\ category \in DOMAIN computed_lifts_of_loaded
          /\ computed_lifts_of_loaded[category][ENDCAP].confidence = "medium"
          /\ category_lifts[category][ENDCAP].source = "computed"
          /\ computed_lifts_of_loaded[category][CHECKOUT].source = "insufficient_data"
          /\ computed_lifts_of_loaded[category][CHECKOUT].lift = None
          /\ category_lifts[category][CHECKOUT].source = "industry_default"

mean_ratio(zone_data, baseline_data) ==
    LET num == 100 * units_sum(zone_data) * df_len(baseline_data)
        den == df_len(zone_data) * units_sum(baseline_data)
    IN  IF den > 0 THEN RoundHalfEven(num, den) ELSE RoundHalfEven(0 - num, 0 - den)

\* C22: after a compute run, for a catalog category whose baseline-zone
\* transactions have a non-zero mean units_sold and a target zone (endcap,
\* checkout, eye_level) with at least min_sample_size non-promoted transactions
\* (both as the computation selects them), the stored cell has source computed
\* and its lift is the zone mean divided by the baseline mean, rounded to two
\* decimals.
LiftIsMeanRatio ==
    (computed_once /\ has_sales_data) =>
        \A category \in CatalogCategories :
            LET cat_data == cat_data_of(loaded_df, category)
                baseline_data == baseline_rows(cat_data, LocationsFile)
            IN  (df_len(baseline_data) > 0 /\ units_sum(baseline_data) # 0) =>
                    \A zone \in TARGET_ZONES :
                        LET zone_data == zone_rows(cat_data, LocationsFile, zone)
                        IN  df_len(zone_data) >= min_sample_size =>
                                /\ category_lifts[category][zone].source = "computed"
                                /\ category_lifts[category][zone].lift
                                       = Some(mean_ratio(zone_data, baseline_data))

\* 100 x total / (sum of the totals / number of locations), in tenths
index_of_total(total, totals_sum, n_locations) ==
    IF totals_sum > 0 THEN RoundHalfEven(1000 * total * n_locations, totals_sum)
    ELSE RoundHalfEven(0 - 1000 * total * n_locations, 0 - totals_sum)

\* C23: after a compute run over a source that holds transactions, the run has
\* completed and the index stored for each location_id of the data is 100 x
\* (its summed units_sold) / (the mean over the locations of their summed
\* units_sold), rounded to one decimal; when all totals are equal every index is
\* 100.0, and a location with a larger total has no smaller index than a
\* location with a smaller total.
LocationIndexValue ==
    (compute_called /\ has_sales_data /\ DOMAIN loaded_df # {}) =>
        LET ids == location_ids(loaded_df)
            total == [location_id \in ids |-> location_total(loaded_df, location_id)]
        IN  /\ last_run = "ok"
            /\ DOMAIN location_performance = ids
            /\ \A location_id \in ids :
                   location_performance[location_id]
                       = index_of_total(total[location_id], units_sum(loaded_df),
                                        Cardinality(ids))
            /\ (\A a, b \in ids : total[a] = total[b]) =>
                   \A location_id \in ids : location_performance[location_id] = 1000
            /\ \A a, b \in ids :
                   total[a] > total[b] => location_performance[a] >= location_performance[b]

\* C24: after every compute run that returned, metadata.metrics_summary has
\* total_metrics = the number of (category, zone) entries of category_lifts = 20,
\* computed_from_sales = the number of entries with source computed,
\* using_defaults = total_metrics - computed_from_sales, high_confidence <=
\* computed_from_sales, and computation_rate = computed_from_sales /
\* total_metrics x 100.
MetricsSummaryConsistent ==
    last_run = "ok" =>
        /\ "metrics_summary" \in DOMAIN metadata
        /\ LET summary == metadata.metrics_summary
               computed_cells == {cz \in stored_cells :
                                     category_lifts[cz[1]][cz[2]].source = "computed"}
           IN  /\ summary.total_metrics = Cardinality(stored_cells)
               /\ summary.total_metrics = 20
               /\ summary.computed_from_sales = Cardinality(computed_cells)
               /\ summary.using_defaults
                      = summary.total_metrics - summary.computed_from_sales
               /\ summary.high_confidence <= summary.computed_from_sales
               /\ summary.computation_rate * summary.total_metrics
                      = 1000 * summary.computed_from_sales

\* a run that stored a computed cell of medium confidence: 1 of 20 computed, 5.0 percent
MetricsSummaryConsistentWitness ==
    /\ last_run = "ok" /\ has_sales_data
    /\ metadata.metrics_summary.computed_from_sales = 1
    /\ metadata.metrics_summary.high_confidence = 0
    /\ metadata.metrics_summary.using_defaults = 19
    /\ metadata.metrics_summary.computation_rate = 50

\* the maps a whole run of _compute_category_lifts_adaptive can return
whole_maps ==
    {compute_category_lifts_adaptive(sales_loader, min_sample_size, ProductsFile, file) :
        file \in LocationsFiles}

\* C25: while compute_all_metrics runs statement by statement and queries run
\* between its statements, category_lifts is always empty or a map one whole run
\* returned, with the four zones of every category, and it changes only by the
\* assignment of line 117, from the entire previous map to the entire new one;
\* the dictionary under construction is never what a query reads.
FullReplaceLifecycle ==
    /\ [](/\ category_lifts = EmptyDict \/ category_lifts \in whole_maps
          /\ \A category \in DOMAIN category_lifts :
                 DOMAIN category_lifts[category] = RESOLVER_ZONES)
    /\ [][category_lifts' # category_lifts =>
              /\ pc = "merge" /\ pc' = "performance"
              /\ category_lifts' = local_category_lifts
              /\ category_lifts' \in whole_maps]_vars

\* a recomputation has resolved only the endcap cell of Snacks, differently from
\* the previous run, while queries read the previous map
FullReplaceLifecycleWitness ==
    /\ pc = "merge"
    /\ category_lifts # EmptyDict
    /\ "Snacks" \in DOMAIN local_category_lifts
    /\ DOMAIN local_category_lifts["Snacks"] = {ENDCAP}
    /\ local_category_lifts["Snacks"][ENDCAP] # category_lifts["Snacks"][ENDCAP]
    /\ ENABLED GetCategoryLift
    /\ get_category_lift(category_lifts, "Snacks", Label_End_Cap)
           = category_lifts["Snacks"][ENDCAP]

\* C27: after any compute run, the low_shelf cell of every catalog category has
\* the static table lift, source industry_default and confidence low, however
\* many low_shelf transactions the data holds, and at most 15 of the 20 cells
\* are computed from sales.
LowShelfNeverComputed ==
    computed_once =>
        /\ \A category \in CatalogCategories :
               /\ category_lifts[category][LOW_SHELF].source = "industry_default"
               /\ category_lifts[category][LOW_SHELF].confidence = "low"
               /\ category_lifts[category][LOW_SHELF].lift
                      = Some(INDUSTRY_DEFAULTS[category][LOW_SHELF])
        /\ Cardinality({cz \in stored_cells :
                            category_lifts[cz[1]][cz[2]].source = "computed"}) <= 15
        /\ last_run = "ok" => metadata.metrics_summary.computed_from_sales <= 15

\* a run over 150 low_shelf transactions of Snacks beside a baseline and a
\* computed endcap cell
LowShelfNeverComputedWitness ==
    /\ last_run = "ok" /\ has_sales_data
    /\ Row("P001", "L006", 1, FALSE) \in DOMAIN loaded_df
    /\ loaded_df[Row("P001", "L006", 1, FALSE)] = 150
    /\ category_lifts["Snacks"][ENDCAP].source = "computed"
    /\ category_lifts["Snacks"][LOW_SHELF] = Entry(Some(80), "industry_default", "low", 0)

\* categories of products.json that are no key of INDUSTRY_DEFAULTS
OutsideCategories == {"Toys", "snacks"}

\* C28: after any compute run the keys of category_lifts are exactly the five
\* industry-default categories, each with exactly the zones endcap, eye_level,
\* checkout, low_shelf; a category outside the catalog, or spelled with another
\* letter case, has no entry however much data it has, and get_category_lift
\* returns the neutral fallback 1.0 for it.
StoreKeysAreCatalog ==
    computed_once =>
        /\ DOMAIN category_lifts = {"Beverages", "Snacks", "Dairy", "Bakery", "Personal Care"}
        /\ \A category \in DOMAIN category_lifts :
               DOMAIN category_lifts[category] = {ENDCAP, EYE_LEVEL, CHECKOUT, LOW_SHELF}
        /\ \A category \in OutsideCategories, zone \in RESOLVER_ZONES :
               get_category_lift(category_lifts, category, zone)
                   = Entry(Some(100), "fallback", "low", 0)

\* a run over data from which an endcap lift was computed for Toys and for snacks
StoreKeysAreCatalogWitness ==
    /\ last_run = "ok" /\ has_sales_data
    /\ OutsideCategories \subseteq DOMAIN computed_lifts_of_loaded
    /\ \A category \in OutsideCategories :
           computed_lifts_of_loaded[category][ENDCAP].source = "computed"
    /\ get_category_lift(category_lifts, "Toys", ENDCAP).source = "fallback"

\* C29: as long as no compute_all_metrics call has completed, the store is
\* empty: get_category_lift returns the neutral fallback (lift 1.0, source
\* fallback) for every catalog cell and get_location_performance returns 100.0
\* for every location.
EmptyUntilComputeCompletes ==
    last_run # "ok" =>
        /\ category_lifts = EmptyDict
        /\ location_performance = EmptyDict
        /\ \A category \in CatalogCategories, zone \in RESOLVER_ZONES :
               get_category_lift(category_lifts, category, zone)
                   = Entry(Some(100), "fallback", "low", 0)
        /\ \A location_id \in QueryLocations :
               get_location_performance(location_performance, location_id) = 1000

node_left_errors ==
    /\ node \in {"validate_input", "check_data_quality", "analyze_roi"}
    /\ state'.errors # <<>>

\* C30: every run of the workflow reaches END and execute ends; a step of
\* validate_input, check_data_quality or analyze_roi that leaves a non-empty
\* errors list leads to handle_error, and handle_error leads to END; execute
\* returns a Recommendation only when errors is empty at END and raises
\* otherwise; with a poor data-quality tier and no errors, check_data_quality
\* records a warning and leads to analyze_roi.
WorkflowErrorRouting ==
    /\ (node = "validate_input") ~> (node = "END")
    /\ (node = "END") ~> (node = "returned")
    /\ [][node_left_errors => node' = "handle_error"]_vars
    /\ [][node = "handle_error" => (node' = "END" /\ state'.errors = state.errors)]_vars
    /\ [][node = "END" => node' = "returned"]_vars
    /\ [](node = "returned" =>
             /\ outcome = "Recommendation" => state.errors = <<>>
             /\ state.errors # <<>> => outcome = "ValueError")
    /\ [][(/\ node = "check_data_quality"
           /\ data_manager # None
           /\ "data_quality" \in DOMAIN metadata
           /\ metadata.data_quality.quality_level = "poor")
              => /\ node' = "analyze_roi"
                 /\ Len(state'.warnings) = Len(state.warnings) + 1
                 /\ state'.errors = <<>>]_vars

\* a run over a poor data-quality tier ended in handle_error because no
\* location was affordable, and execute raised
WorkflowErrorRoutingWitness ==
    /\ node = "returned"
    /\ outcome = "ValueError"
    /\ state.step = "error_handled"
    /\ state.recommendation.step_failed = "analyzed"
    /\ "data_quality" \in DOMAIN state.metadata
    /\ state.metadata.data_quality.quality_level = "poor"
    /\ Len(state.warnings) > 0

====
